---- MODULE Spec2Model ----
(***************************************************************************)
(* Model of the SMS campaign revenue-decline analysis (src/analysis.py).   *)
(*                                                                         *)
(* The script is a single pass over one table: filter and enrich the rows, *)
(* aggregate per day, compare the periods before and after a cutoff date,  *)
(* draw figures, fit two regressions, decompose the revenue change and     *)
(* export two tables.  Each numbered section of the script is one action.  *)
(*                                                                         *)
(* Numbers.  Counts are integers.  A float64 value is modelled as a pair   *)
(* <<n, d>>: for d > 0 the rational n/d in lowest terms, and for d = 0 the *)
(* three IEEE specials <<0,0>> = NaN, <<1,0>> = +inf, <<-1,0>> = -inf.     *)
(* Rounding error of binary floating point is not modelled: arithmetic on  *)
(* finite values is exact.  Where the error decides a result the model     *)
(* tracks, the result is a choice: a value printed with k decimals is any  *)
(* k-decimal number that some value within the error bound of the exact    *)
(* value rounds to.  The bound is that of float64 (unit roundoff 2^-53)    *)
(* for the operations that compute the value, a subtraction of nearly      *)
(* equal averages included; it is kept to 11 bits, rounded up.  For most   *)
(* values this leaves one number, for an exact value halfway between two   *)
(* k-decimal numbers it leaves both.                                       *)
(* Negative zero is not modelled: no denominator of the script can be -0.0 *)
(* (they are sums, means and differences x - y); the sign of a printed     *)
(* zero is not kept.                                                       *)
(*                                                                         *)
(* Phone identifiers exceed 32 bits, so an identifier p is the pair        *)
(* <<p \div 10^6, p % 10^6>>, ordered lexicographically.                   *)
(*                                                                         *)
(* A calendar date of the input file is a triple <<year, month, day>>;     *)
(* pd.to_datetime turns it into a day count since 1970-01-01.              *)
(*                                                                         *)
(* Regressions.  The coefficients are not modelled.  A fit raises on an    *)
(* empty or non-finite design matrix; the summary printed after a fit      *)
(* raises when the fit has no residual degree of freedom, that is when the *)
(* design matrix has as many independent columns as rows (the rank is      *)
(* exact, where numpy takes it with a tolerance).  Every table of fewer    *)
(* than three dates therefore ends in Model 1; the inputs are the tables   *)
(* of at most MaxRows rows, each alone and after three earlier days.       *)
(***************************************************************************)
EXTENDS Integers, Sequences, FiniteSets, TLC

VARIABLES
    pc,         \* the section of the script that runs next, "done" or "aborted"
    failed,     \* the section in which an exception ended the run, or "none"
    raw,        \* the table read from SmsDeliveryReport.csv
    df,         \* the filtered and enriched row-level table
    phone_map,  \* phone identifier -> label
    daily,      \* the daily aggregate, one record per date
    desc_table, \* metric -> pre mean, post mean, percent change
    pg,         \* the date x phone group revenue table of section 3
    breakdowns, \* the date x dimension revenue tables plotted in section 4
    m1,         \* result of Model 1
    m2,         \* result of Model 2
    decomp,     \* the decomposition and its printed report
    summary,    \* the summary table
    files       \* files written so far

vars == <<pc, failed, raw, df, phone_map, daily, desc_table, pg, breakdowns,
          m1, m2, decomp, summary, files>>

-----------------------------------------------------------------------------
(* Bounds of the model *)

MaxRows == 3

-----------------------------------------------------------------------------
(* float64 arithmetic on <<n, d>> *)

NaN == <<0, 0>>
PosInf == <<1, 0>>
NegInf == <<-1, 0>>

Abs(x) == IF x < 0 THEN -x ELSE x

Sign(x) == IF x < 0 THEN -1 ELSE IF x > 0 THEN 1 ELSE 0

RECURSIVE GCD(_, _)
GCD(a, b) == IF b = 0 THEN a ELSE GCD(b, a % b)

\* the rational n/d, d # 0, in lowest terms with a positive denominator
Norm(n, d) ==
    LET g == GCD(Abs(n), Abs(d))
        s == IF d < 0 THEN -1 ELSE 1
    IN  <<(s * n) \div g, (s * d) \div g>>

\* an integer as a float
F(i) == <<i, 1>>

IsNaN(x) == x = NaN
IsInf(x) == x[2] = 0 /\ x[1] # 0
IsFinite(x) == x[2] > 0
IsZero(x) == x[2] > 0 /\ x[1] = 0

FNeg(x) == <<-x[1], x[2]>>

FAdd(x, y) ==
    IF IsNaN(x) \/ IsNaN(y) THEN NaN
    ELSE IF IsInf(x) /\ IsInf(y) THEN (IF x = y THEN x ELSE NaN)
    ELSE IF IsInf(x) THEN x
    ELSE IF IsInf(y) THEN y
    ELSE Norm(x[1] * y[2] + y[1] * x[2], x[2] * y[2])

FSub(x, y) == FAdd(x, FNeg(y))

\* the product (n1 / d1) * (n2 / d2) of two rationals with d1, d2 > 0, the
\* common factors taken out before the multiplication
MulReduced(n1, d1, n2, d2) ==
    LET g1 == GCD(Abs(n1), d2)
        g2 == GCD(Abs(n2), d1)
    IN  Norm((n1 \div g1) * (n2 \div g2), (d1 \div g2) * (d2 \div g1))

FMul(x, y) ==
    IF IsNaN(x) \/ IsNaN(y) THEN NaN
    ELSE IF IsInf(x) \/ IsInf(y)
         THEN (IF IsZero(x) \/ IsZero(y) THEN NaN
               ELSE <<Sign(x[1]) * Sign(y[1]), 0>>)
    ELSE MulReduced(x[1], x[2], y[1], y[2])

\* IEEE division: x/0 is an infinity of the sign of x, 0/0 and inf/inf are NaN
FDiv(x, y) ==
    IF IsNaN(x) \/ IsNaN(y) THEN NaN
    ELSE IF IsInf(x) THEN (IF IsInf(y) THEN NaN
                           ELSE <<x[1] * (IF y[1] < 0 THEN -1 ELSE 1), 0>>)
    ELSE IF IsInf(y) THEN F(0)
    ELSE IF IsZero(y) THEN (IF IsZero(x) THEN NaN ELSE <<Sign(x[1]), 0>>)
    ELSE MulReduced(x[1], x[2], Sign(y[1]) * y[2], Abs(y[1]))

FLe(x, y) == IsFinite(x) /\ IsFinite(y) /\ x[1] * y[2] <= y[1] * x[2]

\* sum of a sequence of floats
RECURSIVE FSum(_)
FSum(s) == IF s = <<>> THEN F(0) ELSE FAdd(Head(s), FSum(Tail(s)))

\* sum of a sequence of integers
RECURSIVE ISum(_)
ISum(s) == IF s = <<>> THEN 0 ELSE Head(s) + ISum(Tail(s))

NotNaN(x) == ~IsNaN(x)

\* pandas Series.sum() of a float column: NaN cells are skipped
SumSkipNa(s) == FSum(SelectSeq(s, NotNaN))

\* pandas Series.mean(): NaN cells are skipped, the mean of nothing is NaN
MeanSkipNa(s) ==
    LET t == SelectSeq(s, NotNaN)
    IN  FDiv(FSum(t), F(Len(t)))

\* Bounds of the rounding error of float64.  A bound is a pair <<m, s>>
\* that stands for m * 2^s, with m < 4096; every operation rounds up.
\* Relative errors are counted in units of 2^-53, the unit roundoff.
RECURSIVE Log2Up(_)
Log2Up(n) == IF n <= 1 THEN 0 ELSE 1 + Log2Up((n + 1) \div 2)

RECURSIVE Pow2(_)
Pow2(e) == IF e = 0 THEN 1 ELSE 2 * Pow2(e - 1)

RECURSIVE BNorm(_, _)
BNorm(m, s) == IF m < 4096 THEN <<m, s>> ELSE BNorm((m + 1) \div 2, s + 1)

\* <<m, s>> with m * 2^s <= d, for the denominator of a bound
RECURSIVE BDown(_)
BDown(d) ==
    IF d < 4096 THEN <<d, 0>>
    ELSE <<BDown(d \div 2)[1], BDown(d \div 2)[2] + 1>>

BInt(n) == BNorm(n, 0)

\* a bound of |x|, x finite
BRat(x) ==
    LET n == BInt(Abs(x[1]))
        d == BDown(x[2])
    IN  BNorm((n[1] * 4096 + d[1] - 1) \div d[1], n[2] - d[2] - 12)

BMul(a, b) == BNorm(a[1] * b[1], a[2] + b[2])

BAdd(a, b) ==
    IF a[1] = 0 THEN b
    ELSE IF b[1] = 0 THEN a
    ELSE LET hi == IF a[2] >= b[2] THEN a ELSE b
             lo == IF a[2] >= b[2] THEN b ELSE a
             k  == IF hi[2] - lo[2] > 12 THEN 12 ELSE hi[2] - lo[2]
         IN  BNorm(hi[1] + (lo[1] + Pow2(k) - 1) \div Pow2(k), hi[2])

FAbs(x) == <<Abs(x[1]), x[2]>>

\* how much the subtraction a - b amplifies the relative error of a and b:
\* (|a| + |b|) / |a - b|; 0 when a = b, where equal averages are equal floats
Cancel(a, b) ==
    IF IsFinite(a) /\ IsFinite(b) /\ a # b
    THEN BRat(FDiv(FAdd(FAbs(a), FAbs(b)), FAbs(FSub(a, b))))
    ELSE BInt(0)

\* the bound of the error of a float of exact value x that is computed with
\* a relative error of ulps, in units of 2^-53
ErrorOf(x, ulps) == IF IsFinite(x) THEN BMul(BRat(x), ulps) ELSE BInt(0)

\* Python's fixed-point formatting f"{x:.kf}" of a float, as the set of the
\* texts it can give: the text "nan", "inf" or "-inf", or the number rounded
\* to k decimals, kept as the integer x * 10^k.  The code rounds the float it
\* has computed, which lies within err * 2^-53 of the exact value x: the
\* texts are the roundings of the values within that distance, taken up to
\* the next power of two.  When the distance is
\* below half a unit of the last decimal that is the nearest number, and
\* also the next one when the halfway point is within the distance (1/40
\* prints as 0.03, 107/40 as 2.67).
RECURSIVE Pow10(_)
Pow10(k) == IF k = 0 THEN 1 ELSE 10 * Pow10(k - 1)

\* the integers nearest to n / d, d > 0: two of them when n / d is halfway
RoundNearest(n, d) ==
    LET q == n \div d
        r == n % d
    IN  IF 2 * r > d THEN {q + 1}
        ELSE IF 2 * r < d THEN {q}
        ELSE {q, q + 1}

\* the roundings of the values within 2^w of n / d
RoundWithin(n, d, w) ==
    LET q == n \div d
        r == n % d
    IN  IF w >= -1
        THEN (q - Pow2(IF w < 0 THEN 0 ELSE w))..(q + 1 + Pow2(IF w < 0 THEN 0 ELSE w))
        ELSE IF w >= -31 /\ Abs(2 * r - d) <= d \div Pow2(-w - 1)
        THEN {q, q + 1}
        ELSE RoundNearest(n, d)

Format(x, k, err) ==
    IF IsNaN(x) THEN {<<"nan", 0>>}
    ELSE IF x = PosInf THEN {<<"inf", 0>>}
    ELSE IF x = NegInf THEN {<<"-inf", 0>>}
    ELSE IF err[1] = 0
    THEN {<<"num", n>> : n \in RoundNearest(x[1] * Pow10(k), x[2])}
    ELSE LET w == BMul(err, BInt(Pow10(k)))
         IN  {<<"num", n>> :
                n \in RoundWithin(x[1] * Pow10(k), x[2],
                                  w[2] - 53 + Log2Up(w[1] + 1))}

-----------------------------------------------------------------------------
(* Configuration of the script *)

\* a phone identifier as <<p \div 10^6, p % 10^6>>
Phone(hi, lo) == <<hi, lo>>
PhoneLess(p, q) == p[1] < q[1] \/ (p[1] = q[1] /\ p[2] < q[2])

\* the short code 20407
EXCLUDED_PHONE == Phone(0, 20407)

\* retired_phones = [15122546961, 15122546963, 15122546966, 15122546967]
retired_phones ==
    {Phone(15122, 546961), Phone(15122, 546963),
     Phone(15122, 546966), Phone(15122, 546967)}

\* pd.to_datetime on one cell: days since 1970-01-01 of a calendar date
DaysInMonth(y, m) ==
    IF m = 2 THEN (IF (y % 4 = 0 /\ y % 100 # 0) \/ y % 400 = 0 THEN 29 ELSE 28)
    ELSE IF m \in {4, 6, 9, 11} THEN 30 ELSE 31

ValidDate(c) ==
    /\ c[2] \in 1..12
    /\ c[3] \in 1..DaysInMonth(c[1], c[2])

ToDatetime(c) ==
    LET y   == IF c[2] <= 2 THEN c[1] - 1 ELSE c[1]
        era == y \div 400
        yoe == y - era * 400
        mp  == IF c[2] > 2 THEN c[2] - 3 ELSE c[2] + 9
        doy == (153 * mp + 2) \div 5 + c[3] - 1
        doe == yoe * 365 + yoe \div 4 - yoe \div 100 + doy
    IN  era * 146097 + doe - 719468

\* cutoff = pd.Timestamp("2026-02-04")
cutoff == ToDatetime(<<2026, 2, 4>>)

-----------------------------------------------------------------------------
(* Section 1: ETL *)

\* the filter with the comparison lost: every row is kept
KeepRowAll(r) == r.Sms_Phone_Number = r.Sms_Phone_Number

\* raw[raw["Sms Phone Number"] != 20407]
KeepRow(r) == r.Sms_Phone_Number # EXCLUDED_PHONE

FilterRows(tbl) == SelectSeq(tbl, KeepRow)

\* the row-level ratio without its guard
RowRatioUnguarded(num, sent) == FDiv(F(num), F(sent))

\* np.where(df["Sent"] > 0, df[col] / df["Sent"], np.nan)
RowRatio(num, sent) == IF sent > 0 THEN FDiv(F(num), F(sent)) ELSE NaN

\* the least element of a non-empty set of integers
MinOf(S) == CHOOSE x \in S : \A y \in S : x <= y

\* the identifiers ordered by their last six digits only
RECURSIVE SortPhonesLowDigits(_)
SortPhonesLowDigits(S) ==
    IF S = {} THEN <<>>
    ELSE LET p == CHOOSE x \in S : \A y \in S : x[2] <= y[2]
         IN  <<p>> \o SortPhonesLowDigits(S \ {p})

\* sorted(...) of a set of phone identifiers
RECURSIVE SortPhones(_)
SortPhones(S) ==
    IF S = {} THEN <<>>
    ELSE LET p == CHOOSE x \in S : \A y \in S : x = y \/ PhoneLess(x, y)
         IN  <<p>> \o SortPhones(S \ {p})

\* {v: f"Phone_{i+1}" for i, v in enumerate(sorted(unique phone numbers))}
PhoneMap(tbl) ==
    LET ids == {tbl[i].Sms_Phone_Number : i \in 1..Len(tbl)}
        srt == SortPhones(ids)
    IN  [p \in ids |-> <<"Phone_", CHOOSE i \in 1..Len(srt) : srt[i] = p>>]

PhoneGroup(p) ==
    IF p \in retired_phones THEN "Retired (4 numbers)" ELSE "Active (2 numbers)"

Enrich(tbl) ==
    LET dates == {ToDatetime(tbl[i].Date) : i \in 1..Len(tbl)}
        pm    == PhoneMap(tbl)
    IN  [i \in 1..Len(tbl) |->
            LET r == tbl[i]
            IN  [Date             |-> ToDatetime(r.Date),
                 Sms_Phone_Number |-> r.Sms_Phone_Number,
                 Carrier_Group    |-> r.Carrier_Group,
                 Segment          |-> r.Segment,
                 Sent             |-> r.Sent,
                 Delivered        |-> r.Delivered,
                 Clicks           |-> r.Clicks,
                 Unique_Clicks    |-> r.Unique_Clicks,
                 Bounces          |-> r.Bounces,
                 Refusals         |-> r.Refusals,
                 Revenue          |-> r.Revenue,
                 DayNum           |-> ToDatetime(r.Date) - MinOf(dates),
                 Delivery_Rate    |-> RowRatio(r.Delivered, r.Sent),
                 CTR              |-> RowRatio(r.Clicks, r.Sent),
                 Rev_per_Sent     |-> RowRatio(r.Revenue, r.Sent),
                 Phone_Label      |-> pm[r.Sms_Phone_Number],
                 Phone_Group      |-> PhoneGroup(r.Sms_Phone_Number)]]

\* df is first the kept rows, with the dates as the file has them; an
\* unparseable date in a kept row makes pd.to_datetime raise, which leaves
\* df so
Etl ==
    /\ pc = "etl"
    /\ LET kept == FilterRows(raw)
       IN  IF \E i \in 1..Len(kept) : ~ValidDate(kept[i].Date)
           THEN /\ df' = kept
                /\ pc' = "aborted"
                /\ failed' = "etl"
                /\ UNCHANGED phone_map
           ELSE /\ df' = Enrich(kept)
                /\ phone_map' = PhoneMap(kept)
                /\ pc' = "daily"
                /\ UNCHANGED failed
    /\ UNCHANGED <<raw, daily, desc_table, pg, breakdowns, m1, m2, decomp,
                   summary, files>>

-----------------------------------------------------------------------------
(* Section 2: daily aggregates *)

\* the elements of a set of integers in ascending order
\* the elements of the set from the largest to the smallest
RECURSIVE SortIntsDescending(_)
SortIntsDescending(S) ==
    IF S = {} THEN <<>>
    ELSE SortIntsDescending(S \ {MinOf(S)}) \o <<MinOf(S)>>

RECURSIVE SortInts(_)
SortInts(S) ==
    IF S = {} THEN <<>> ELSE <<MinOf(S)>> \o SortInts(S \ {MinOf(S)})

DatesOf(tbl) == {tbl[i].Date : i \in 1..Len(tbl)}

RowsOn(tbl, d) == SelectSeq(tbl, LAMBDA r : r.Date = d)

ColRevenue(tbl) == [i \in 1..Len(tbl) |-> tbl[i].Revenue]
ColSent(tbl) == [i \in 1..Len(tbl) |-> tbl[i].Sent]
ColDelivered(tbl) == [i \in 1..Len(tbl) |-> tbl[i].Delivered]
ColClicks(tbl) == [i \in 1..Len(tbl) |-> tbl[i].Clicks]
ColUniqueClicks(tbl) == [i \in 1..Len(tbl) |-> tbl[i].Unique_Clicks]
ColBounces(tbl) == [i \in 1..Len(tbl) |-> tbl[i].Bounces]
ColRefusals(tbl) == [i \in 1..Len(tbl) |-> tbl[i].Refusals]

\* daily[num] / daily["Sent"]: integer columns, so x/0 is inf and 0/0 is NaN
DailyRatio(num, den) == FDiv(F(num), F(den))

\* the plain division by the day's clicks
RevPerClickUnguarded(revenue, clicks) == FDiv(F(revenue), F(clicks))

\* daily["Revenue"] / daily["Clicks"].replace(0, 1)
RevPerClick(revenue, clicks) == FDiv(F(revenue), F(IF clicks = 0 THEN 1 ELSE clicks))

\* the daily row with its rates taken as the mean of the per-record rates
DailyRowMeanOfRatios(tbl, d) ==
    LET g         == RowsOn(tbl, d)
        revenue   == ISum(ColRevenue(g))
        sent      == ISum(ColSent(g))
        delivered == ISum(ColDelivered(g))
        clicks    == ISum(ColClicks(g))
    IN  [Date          |-> d,
         Revenue       |-> revenue,
         Sent          |-> sent,
         Delivered     |-> delivered,
         Clicks        |-> clicks,
         Unique_Clicks |-> ISum(ColUniqueClicks(g)),
         Bounces       |-> ISum(ColBounces(g)),
         Refusals      |-> SumSkipNa(ColRefusals(g)),
         Delivery_Rate |-> MeanSkipNa([i \in 1..Len(g) |-> g[i].Delivery_Rate]),
         CTR           |-> MeanSkipNa([i \in 1..Len(g) |-> g[i].CTR]),
         Rev_per_Sent  |-> MeanSkipNa([i \in 1..Len(g) |-> g[i].Rev_per_Sent]),
         Rev_per_Click |-> RevPerClick(revenue, clicks),
         DayNum        |-> d - MinOf(DatesOf(tbl))]

DailyRow(tbl, d) ==
    LET g         == RowsOn(tbl, d)
        revenue   == ISum(ColRevenue(g))
        sent      == ISum(ColSent(g))
        delivered == ISum(ColDelivered(g))
        clicks    == ISum(ColClicks(g))
    IN  [Date          |-> d,
         Revenue       |-> revenue,
         Sent          |-> sent,
         Delivered     |-> delivered,
         Clicks        |-> clicks,
         Unique_Clicks |-> ISum(ColUniqueClicks(g)),
         Bounces       |-> ISum(ColBounces(g)),
         Refusals      |-> SumSkipNa(ColRefusals(g)),
         Delivery_Rate |-> DailyRatio(delivered, sent),
         CTR           |-> DailyRatio(clicks, sent),
         Rev_per_Sent  |-> DailyRatio(revenue, sent),
         Rev_per_Click |-> RevPerClick(revenue, clicks),
         DayNum        |-> d - MinOf(DatesOf(tbl))]

\* df.groupby("Date").agg(...).sort_index() and the derived columns
DailyOf(tbl) ==
    LET ds == SortInts(DatesOf(tbl))
    IN  [i \in 1..Len(ds) |-> DailyRow(tbl, ds[i])]

DailyAggregate ==
    /\ pc = "daily"
    /\ daily' = DailyOf(df)
    /\ pc' = "desc"
    /\ UNCHANGED <<failed, raw, df, phone_map, desc_table, pg, breakdowns, m1,
                   m2, decomp, summary, files>>

-----------------------------------------------------------------------------
(* Section 3: descriptive statistics *)

\* daily[daily.index < cutoff] and daily[daily.index >= cutoff]; the same
\* predicates split df in the decomposition
IsPre(r) == r.Date < cutoff

\* a post bucket that starts the day after the cutoff
IsPostStrict(r) == r.Date > cutoff

IsPost(r) == r.Date >= cutoff

PreOf(tbl) == SelectSeq(tbl, IsPre)
PostOf(tbl) == SelectSeq(tbl, IsPost)

DescMetrics ==
    {"Revenue", "Sent", "Delivered", "Clicks", "Delivery_Rate", "CTR", "Rev_per_Sent"}

\* a column of the daily aggregate as floats
DailyCol(tbl, m) ==
    [i \in 1..Len(tbl) |->
        CASE m = "Revenue"       -> F(tbl[i].Revenue)
          [] m = "Sent"          -> F(tbl[i].Sent)
          [] m = "Delivered"     -> F(tbl[i].Delivered)
          [] m = "Clicks"        -> F(tbl[i].Clicks)
          [] m = "Delivery_Rate" -> tbl[i].Delivery_Rate
          [] m = "CTR"           -> tbl[i].CTR
          [] m = "Rev_per_Sent"  -> tbl[i].Rev_per_Sent
          [] m = "Rev_per_Click" -> tbl[i].Rev_per_Click]

\* tbl[m].mean()
MeanOf(tbl, m) == MeanSkipNa(DailyCol(tbl, m))

\* (post - pre) / pre * 100
PctChange(pre, post) == FMul(FDiv(FSub(post, pre), pre), F(100))

DescTable(tbl) ==
    [m \in DescMetrics |->
        LET a == MeanOf(PreOf(tbl), m)
            b == MeanOf(PostOf(tbl), m)
        IN  [pre |-> a, post |-> b, pct |-> PctChange(a, b)]]

\* the value of a row in one of the grouping columns
DimOf(r, dim) ==
    CASE dim = "Phone_Group"   -> r.Phone_Group
      [] dim = "Carrier_Group" -> r.Carrier_Group
      [] dim = "Segment"       -> r.Segment
      [] dim = "Phone_Label"   -> r.Phone_Label

\* df.groupby(["Date", dim])["Revenue"].sum(): one entry per observed pair
GroupRevenue(tbl, dim) ==
    LET keys == {<<tbl[i].Date, DimOf(tbl[i], dim)>> : i \in 1..Len(tbl)}
    IN  [k \in keys |->
            ISum(ColRevenue(SelectSeq(tbl,
                LAMBDA r : r.Date = k[1] /\ DimOf(r, dim) = k[2])))]

\* .unstack() without fill_value: an unobserved pair is a missing cell
UnstackNoFill(tbl, dim) ==
    LET g == GroupRevenue(tbl, dim)
    IN  [index   |-> SortInts({k[1] : k \in DOMAIN g}),
         columns |-> {k[2] : k \in DOMAIN g},
         cell    |-> [k \in {k[1] : k \in DOMAIN g} \X {k[2] : k \in DOMAIN g} |->
                        IF k \in DOMAIN g THEN F(g[k]) ELSE NaN]]

\* .unstack(fill_value=0): index = the dates in order, columns = the levels,
\* cell = the group's sum, or 0 for a pair that no record has
Unstack(tbl, dim) ==
    LET g == GroupRevenue(tbl, dim)
    IN  [index   |-> SortInts({k[1] : k \in DOMAIN g}),
         columns |-> {k[2] : k \in DOMAIN g},
         cell    |-> [k \in {k[1] : k \in DOMAIN g} \X {k[2] : k \in DOMAIN g} |->
                        IF k \in DOMAIN g THEN F(g[k]) ELSE F(0)]]

DescriptiveStats ==
    /\ pc = "desc"
    /\ desc_table' = DescTable(daily)
    /\ pg' = Unstack(df, "Phone_Group")
    /\ pc' = "figures"
    /\ UNCHANGED <<failed, raw, df, phone_map, daily, breakdowns, m1, m2,
                   decomp, summary, files>>

-----------------------------------------------------------------------------
(* Section 4: figures (plotting itself is not modelled) *)

Figures ==
    /\ pc = "figures"
    /\ breakdowns' = [pg_daily      |-> Unstack(df, "Phone_Group"),
                      carrier_daily |-> Unstack(df, "Carrier_Group"),
                      seg_daily     |-> Unstack(df, "Segment"),
                      phone_daily   |-> Unstack(df, "Phone_Label")]
    /\ files' = files \cup {"fig1_revenue_overview.png", "fig2_breakdowns.png"}
    /\ pc' = "model1"
    /\ UNCHANGED <<failed, raw, df, phone_map, daily, desc_table, pg, m1, m2,
                   decomp, summary>>

-----------------------------------------------------------------------------
(* Section 5: regressions.  A design matrix is [columns, rows]: the column *)
(* names in order, and one function column -> float per observation.  The  *)
(* coefficients themselves are not modelled; the rank of the design matrix *)
(* is, because the residual degrees of freedom decide whether the printed  *)
(* summary of a fit can be computed.                                       *)

\* (index >= cutoff).astype(int)
PostDecline(d) == IF d >= cutoff THEN 1 ELSE 0

\* sm.add_constant: prepends a column of ones, unless a column is already a
\* non-zero constant (has_constant="skip")
HasConstant(X) ==
    \E c \in DOMAIN X.columns :
        /\ Len(X.rows) > 0
        /\ IsFinite(X.rows[1][X.columns[c]])
        /\ \A i \in 1..Len(X.rows) : X.rows[i][X.columns[c]] = X.rows[1][X.columns[c]]
        /\ \E i \in 1..Len(X.rows) : ~IsZero(X.rows[i][X.columns[c]])

AddConstant(X) ==
    IF HasConstant(X) THEN X
    ELSE [columns |-> <<(<<"const">>)>> \o X.columns,
          rows    |-> [i \in 1..Len(X.rows) |->
                          [c \in {<<"const">>} \cup DOMAIN X.rows[i] |->
                              IF c = <<"const">> THEN F(1) ELSE X.rows[i][c]]]]

\* sm.OLS(y, X) raises on a design matrix with no observation or with a
\* cell that is not finite
OLSRaises(X) ==
    \/ Len(X.rows) = 0
    \/ \E i \in 1..Len(X.rows) : \E c \in DOMAIN X.rows[i] : ~IsFinite(X.rows[i][c])

\* the rows of a matrix after the column c has been cleared with the row p:
\* row p is left out, each other row r becomes r - (r[c] / p[c]) * p
Eliminate(rows, p, c) ==
    [k \in 1..(Len(rows) - 1) |->
        LET r == rows[IF k < p THEN k ELSE k + 1]
        IN  [x \in DOMAIN r |->
                FSub(r[x], FMul(FDiv(r[c], rows[p][c]), rows[p][x]))]]

\* the rank of the rows over the columns cols, by elimination
RECURSIVE RankOf(_, _)
RankOf(rows, cols) ==
    IF Len(rows) = 0 \/ Len(cols) = 0 THEN 0
    ELSE LET c == Head(cols)
             P == {i \in 1..Len(rows) : ~IsZero(rows[i][c])}
         IN  IF P = {} THEN RankOf(rows, Tail(cols))
             ELSE 1 + RankOf(Eliminate(rows, CHOOSE i \in P : TRUE, c), Tail(cols))

\* np.linalg.matrix_rank of the design matrix, as fit() takes it
MatrixRank(X) == RankOf(X.rows, X.columns)

\* df_resid of a fit: the number of observations less the rank
DfResid(X) == Len(X.rows) - MatrixRank(X)

\* results.summary2() of a fit with cov_type="HC1" raises when no residual
\* degree of freedom is left: the HC1 covariance is scaled by nobs / df_resid,
\* which is then not finite, and the F statistic of the summary is a Wald
\* test, which raises ValueError on such a covariance
Summary2Raises(X) == DfResid(X) = 0

\* X1 = sm.add_constant(daily_reg[["DayNum", "Post_Decline"]])
X1Of(tbl) ==
    AddConstant(
        [columns |-> <<(<<"DayNum">>), (<<"Post_Decline">>)>>,
         rows    |-> [i \in 1..Len(tbl) |->
                         (<<"DayNum">> :> F(tbl[i].DayNum))
                         @@ (<<"Post_Decline">> :> F(PostDecline(tbl[i].Date)))]])

\* what the script keeps of a fit
Fit(X) == [nobs |-> Len(X.rows), params |-> X.columns]

\* sm.OLS(...).fit(...) may raise, which leaves the result unbound; the
\* summary printed next may raise, after the result is bound
Model1 ==
    /\ pc = "model1"
    /\ LET X1 == X1Of(daily)
       IN  IF OLSRaises(X1)
           THEN /\ pc' = "aborted"
                /\ failed' = "model1"
                /\ UNCHANGED m1
           ELSE IF Summary2Raises(X1)
           THEN /\ m1' = Fit(X1)
                /\ pc' = "aborted"
                /\ failed' = "model1"
           ELSE /\ m1' = Fit(X1)
                /\ pc' = "model2"
                /\ UNCHANGED failed
    /\ UNCHANGED <<raw, df, phone_map, daily, desc_table, pg, breakdowns, m2,
                   decomp, summary, files>>

\* the levels of the categorical columns, in the order sorted() gives them
CarrierOrder == <<"AT&T", "T-Mobile", "Verizon">>
SegmentOrder == <<"Clicker", "New Data", "TriggeredSend">>
PhoneGroupOrder == <<"Active (2 numbers)", "Retired (4 numbers)">>

\* the levels of order that occur in vals, in order
LevelsOf(order, vals) == SelectSeq(order, LAMBDA v : v \in vals)

\* get_dummies without drop_first: one indicator column per observed level
DummyColumnsAll(prefix, order, vals) ==
    LET lv == LevelsOf(order, vals)
    IN  [k \in 1..Len(lv) |-> <<prefix, lv[k]>>]

\* pd.get_dummies(col, prefix=prefix, drop_first=True): one indicator column
\* per observed level except the first
DummyColumns(prefix, order, vals) ==
    LET lv == LevelsOf(order, vals)
    IN  IF lv = <<>> THEN <<>>
        ELSE [k \in 1..(Len(lv) - 1) |-> <<prefix, lv[k + 1]>>]

Indicator(b) == IF b THEN F(1) ELSE F(0)

\* X2.drop(columns=["Delivered"])
DropColumn(cols, c) == SelectSeq(cols, LAMBDA x : x # c)

\* the columns of pd.concat([reg_df[[...]], carrier_dummies, ...], axis=1)
X2Concat(tbl) ==
    <<(<<"Sent">>), (<<"Delivered">>), (<<"Clicks">>), (<<"Bounces">>),
      (<<"Refusals">>), (<<"DayNum">>), (<<"Post_Decline">>)>>
    \o DummyColumns("Carrier", CarrierOrder,
                    {tbl[i].Carrier_Group : i \in 1..Len(tbl)})
    \o DummyColumns("Seg", SegmentOrder,
                    {tbl[i].Segment : i \in 1..Len(tbl)})
    \o DummyColumns("PG", PhoneGroupOrder,
                    {tbl[i].Phone_Group : i \in 1..Len(tbl)})

X2Columns(tbl) == DropColumn(X2Concat(tbl), <<"Delivered">>)

X2Cell(r, c) ==
    CASE c = <<"Sent">>         -> F(r.Sent)
      [] c = <<"Delivered">>    -> F(r.Delivered)
      [] c = <<"Clicks">>       -> F(r.Clicks)
      [] c = <<"Bounces">>      -> F(r.Bounces)
      [] c = <<"Refusals">>     -> r.Refusals
      [] c = <<"DayNum">>       -> F(r.DayNum)
      [] c = <<"Post_Decline">> -> F(PostDecline(r.Date))
      [] c[1] = "Carrier"       -> Indicator(r.Carrier_Group = c[2])
      [] c[1] = "Seg"           -> Indicator(r.Segment = c[2])
      [] c[1] = "PG"            -> Indicator(r.Phone_Group = c[2])

\* X2 = sm.add_constant(pd.concat([...]).astype(float).drop(columns=["Delivered"]))
X2Of(tbl) ==
    LET cols == X2Columns(tbl)
        cset == {cols[k] : k \in 1..Len(cols)}
    IN  AddConstant(
            [columns |-> cols,
             rows    |-> [i \in 1..Len(tbl) |-> [c \in cset |-> X2Cell(tbl[i], c)]]])

\* Model 2 with its failure caught: the run goes on with the decomposition
Model2Caught ==
    /\ pc = "model2"
    /\ LET X2 == X2Of(df)
       IN  IF OLSRaises(X2)
           THEN /\ pc' = "decomp"
                /\ failed' = "model2"
                /\ UNCHANGED m2
           ELSE IF Summary2Raises(X2)
           THEN /\ m2' = Fit(X2)
                /\ pc' = "decomp"
                /\ failed' = "model2"
           ELSE /\ m2' = Fit(X2)
                /\ pc' = "decomp"
                /\ UNCHANGED failed
    /\ UNCHANGED <<raw, df, phone_map, daily, desc_table, pg, breakdowns, m1,
                   decomp, summary, files>>

Model2 ==
    /\ pc = "model2"
    /\ LET X2 == X2Of(df)
       IN  IF OLSRaises(X2)
           THEN /\ pc' = "aborted"
                /\ failed' = "model2"
                /\ UNCHANGED m2
           ELSE IF Summary2Raises(X2)
           THEN /\ m2' = Fit(X2)
                /\ pc' = "aborted"
                /\ failed' = "model2"
           ELSE /\ m2' = Fit(X2)
                /\ pc' = "decomp"
                /\ UNCHANGED failed
    /\ UNCHANGED <<raw, df, phone_map, daily, desc_table, pg, breakdowns, m1,
                   decomp, summary, files>>

-----------------------------------------------------------------------------
(* Section 5, Model 3: decomposition of the revenue change *)

IsRetired(r) == r.Sms_Phone_Number \in retired_phones
IsActive(r) == r.Sms_Phone_Number \notin retired_phones

\* tbl[col].sum() / n_days
AvgDaily(total, ndays) == FDiv(F(total), F(ndays))

VolumeEffect(pre_avg_sent, post_avg_sent, pre_rps) ==
    FMul(FSub(post_avg_sent, pre_avg_sent), pre_rps)

\* the efficiency effect without its volume weight
EfficiencyEffectUnweighted(pre_rps, post_rps, post_avg_sent) ==
    FSub(post_rps, pre_rps)

EfficiencyEffect(pre_rps, post_rps, post_avg_sent) ==
    FMul(FSub(post_rps, pre_rps), post_avg_sent)

\* the retired group's revenue per day on which the group has a row
RetiredAvgRevOwnDays(tbl, ndays) ==
    AvgDaily(ISum(ColRevenue(SelectSeq(tbl, IsRetired))),
             Cardinality(DatesOf(SelectSeq(tbl, IsRetired))))

\* the revenue of the rows of one phone group, per day of the whole period
RetiredAvgRev(tbl, ndays) ==
    AvgDaily(ISum(ColRevenue(SelectSeq(tbl, IsRetired))), ndays)

ActiveAvgRev(tbl, ndays) ==
    AvgDaily(ISum(ColRevenue(SelectSeq(tbl, IsActive))), ndays)

\* effect / total_decline * 100
ShareValue(effect, total) == FMul(FDiv(effect, total), F(100))

\* the share printed with one decimal: the texts it can give when the effect
\* and the total carry the relative errors ulps_effect and ulps_total (in
\* units of 2^-53), to which the division and the product add one each
Share(effect, total, ulps_effect, ulps_total) ==
    Format(ShareValue(effect, total), 1,
           ErrorOf(ShareValue(effect, total),
                   BAdd(BAdd(ulps_effect, ulps_total), BInt(2))))

\* the number of rows of the period instead of its number of dates
NDaysRowCount(tbl) == Len(tbl)

\* tbl["Date"].nunique()
NDays(tbl) == Cardinality(DatesOf(tbl))

\* the figures of the decomposition and the shares it prints: one record
\* for each way the shares can be printed
Decompose(tbl) ==
    LET pre_df        == PreOf(tbl)
        post_df       == PostOf(tbl)
        n_pre_days    == NDays(pre_df)
        n_post_days   == NDays(post_df)
        pre_avg_rev   == AvgDaily(ISum(ColRevenue(pre_df)), n_pre_days)
        post_avg_rev  == AvgDaily(ISum(ColRevenue(post_df)), n_post_days)
        total_decline == FSub(post_avg_rev, pre_avg_rev)
        pre_avg_sent  == AvgDaily(ISum(ColSent(pre_df)), n_pre_days)
        post_avg_sent == AvgDaily(ISum(ColSent(post_df)), n_post_days)
        pre_rps       == FDiv(pre_avg_rev, pre_avg_sent)
        post_rps      == FDiv(post_avg_rev, post_avg_sent)
        volume        == VolumeEffect(pre_avg_sent, post_avg_sent, pre_rps)
        efficiency    == EfficiencyEffect(pre_rps, post_rps, post_avg_sent)
        retired       == FSub(RetiredAvgRev(post_df, n_post_days),
                              RetiredAvgRev(pre_df, n_pre_days))
        active        == FSub(ActiveAvgRev(post_df, n_post_days),
                              ActiveAvgRev(pre_df, n_pre_days))
        \* relative errors in units of 2^-53: an average has 1, a difference
        \* of two values of error u has u * Cancel + 1, a quotient or a
        \* product has the sum of its operands' plus 1
        u_total       == BAdd(Cancel(post_avg_rev, pre_avg_rev), BInt(1))
        u_volume      == BAdd(Cancel(post_avg_sent, pre_avg_sent), BInt(5))
        u_efficiency  == BAdd(BMul(BInt(3), Cancel(post_rps, pre_rps)), BInt(3))
        u_retired     == BAdd(Cancel(RetiredAvgRev(post_df, n_post_days),
                                     RetiredAvgRev(pre_df, n_pre_days)), BInt(1))
        u_active      == BAdd(Cancel(ActiveAvgRev(post_df, n_post_days),
                                     ActiveAvgRev(pre_df, n_pre_days)), BInt(1))
        \* equal revenues per send may differ as floats by 6 * 2^-53 of
        \* their value: the efficiency share is then within that, times the
        \* post volume and 100 and divided by the total, of 0
        e_rps_equal   == BMul(BMul(BInt(600), BRat(pre_rps)),
                              BMul(BRat(post_avg_sent),
                                   BRat(FDiv(F(1), total_decline))))
        efficiency_texts ==
            IF /\ IsZero(efficiency)
               /\ IsFinite(pre_rps) /\ ~IsZero(pre_rps) /\ pre_rps = post_rps
               /\ IsFinite(post_avg_sent) /\ ~IsZero(post_avg_sent)
               /\ IsFinite(total_decline) /\ ~IsZero(total_decline)
            THEN Format(F(0), 1, e_rps_equal)
            ELSE Share(efficiency, total_decline, u_efficiency, u_total)
    IN {[n_pre_days        |-> n_pre_days,
         n_post_days       |-> n_post_days,
         pre_avg_rev       |-> pre_avg_rev,
         post_avg_rev      |-> post_avg_rev,
         total_decline     |-> total_decline,
         pre_avg_sent      |-> pre_avg_sent,
         post_avg_sent     |-> post_avg_sent,
         pre_rps           |-> pre_rps,
         post_rps          |-> post_rps,
         volume_effect     |-> volume,
         efficiency_effect |-> efficiency,
         retired_effect    |-> retired,
         active_effect     |-> active,
         total_pct         |-> total_pct,
         volume_pct        |-> volume_pct,
         efficiency_pct    |-> efficiency_pct,
         retired_pct       |-> retired_pct,
         active_pct        |-> active_pct] :
            total_pct      \in Share(total_decline, pre_avg_rev, u_total, F(1)),
            volume_pct     \in Share(volume, total_decline, u_volume, u_total),
            efficiency_pct \in efficiency_texts,
            retired_pct    \in Share(retired, total_decline, u_retired, u_total),
            active_pct     \in Share(active, total_decline, u_active, u_total)}

Decomposition ==
    /\ pc = "decomp"
    /\ decomp' \in Decompose(df)
    /\ pc' = "summary"
    /\ UNCHANGED <<failed, raw, df, phone_map, daily, desc_table, pg,
                   breakdowns, m1, m2, summary, files>>

-----------------------------------------------------------------------------
(* Section 6: summary table *)

\* one row of the table: the two period means, scaled and printed with k
\* decimals, and the percent change printed with kc decimals; the set of
\* the rows the formatting can give
SummaryRow(tbl, m, scale, k, kc) ==
    LET a == MeanOf(PreOf(tbl), m)
        b == MeanOf(PostOf(tbl), m)
        \* relative errors in units of 2^-53: the mean of n values that are
        \* not negative has n + 1, its multiple n + 2; the difference of the
        \* two means has (n + 1) * Cancel + 1, the change n + 3 more.  Equal
        \* means may differ as floats: the change is then within
        \* 200 * (n + 1) * 2^-53 of 0
        n == Len(tbl)
        u_change == BAdd(BMul(BInt(n + 1), Cancel(b, a)), BInt(n + 4))
        e_change == IF IsZero(PctChange(a, b))
                    THEN BInt(200 * (n + 1))
                    ELSE ErrorOf(PctChange(a, b), u_change)
    IN  {[pre |-> x, post |-> y, change |-> c] :
            x \in Format(FMul(a, F(scale)), k, ErrorOf(FMul(a, F(scale)), BInt(n + 2))),
            y \in Format(FMul(b, F(scale)), k, ErrorOf(FMul(b, F(scale)), BInt(n + 2))),
            c \in Format(PctChange(a, b), kc, e_change)}

\* the tables the formatting can give; the last row is literal text, its
\* change is a dash
SummaryTable(tbl) ==
    {[Revenue       |-> revenue,
      Sent          |-> sent,
      Delivery_Rate |-> delivery_rate,
      CTR           |-> ctr,
      Rev_per_Sent  |-> rev_per_sent,
      Rev_per_Click |-> rev_per_click,
      Active_Phones |-> [pre |-> <<"6", 0>>, post |-> <<"2 (from Feb 11)", 0>>,
                         change |-> <<"-", 0>>]] :
        revenue       \in SummaryRow(tbl, "Revenue", 1, 2, 1),
        sent          \in SummaryRow(tbl, "Sent", 1, 0, 1),
        delivery_rate \in SummaryRow(tbl, "Delivery_Rate", 100, 2, 2),
        ctr           \in SummaryRow(tbl, "CTR", 100, 2, 1),
        rev_per_sent  \in SummaryRow(tbl, "Rev_per_Sent", 100, 3, 1),
        rev_per_click \in SummaryRow(tbl, "Rev_per_Click", 100, 3, 1)}

SummaryExport ==
    /\ pc = "summary"
    /\ summary' \in SummaryTable(daily)
    /\ files' = files \cup {"summary_table.csv"}
    /\ pc' = "coef"
    /\ UNCHANGED <<failed, raw, df, phone_map, daily, desc_table, pg,
                   breakdowns, m1, m2, decomp>>

-----------------------------------------------------------------------------
(* Section 7: regression coefficient table *)

CoefExport ==
    /\ pc = "coef"
    /\ files' = files \cup {"regression_coefficients.csv"}
    /\ pc' = "done"
    /\ UNCHANGED <<failed, raw, df, phone_map, daily, desc_table, pg,
                   breakdowns, m1, m2, decomp, summary>>

-----------------------------------------------------------------------------
(* Inputs and specifications *)

\* the tables of at most MaxRows rows drawn from the set U of rows
Tables(U) == UNION {[1..n -> U] : n \in 0..MaxRows}

\* a row of the input file; unstated columns take the defaults
Row(date, phone, sent, delivered, clicks, revenue) ==
    [Date             |-> date,
     Sms_Phone_Number |-> phone,
     Carrier_Group    |-> "AT&T",
     Segment          |-> "Clicker",
     Sent             |-> sent,
     Delivered        |-> delivered,
     Clicks           |-> clicks,
     Unique_Clicks    |-> clicks,
     Bounces          |-> 0,
     Refusals         |-> F(0),
     Revenue          |-> revenue]

\* three earlier days of traffic, one record a day: with them a fit has more
\* observations than parameters
EarlierDays ==
    [k \in 1..3 |-> Row(<<2026, 1, 26 + k>>, Phone(15122, 546962), 1, 1, 1, 1)]

\* the tables of T, each alone and after the three earlier days
WithEarlierDays(T) == T \cup {EarlierDays \o t : t \in T}

\* a row whose Refusals cell is blank in the file (read as NaN)
BlankRefusals(r) == [r EXCEPT !.Refusals = NaN]

\* phone identifiers of the inputs: the excluded short code, a retired number,
\* a number that is not retired, and a ten-digit number below both
SomePhones ==
    {EXCLUDED_PHONE, Phone(15122, 546961), Phone(15122, 546962), Phone(9999, 999999)}

\* inputs that vary the phone identifier and the period, and a blank cell
\* on the rows of one identifier
EtlRows ==
    LET base == {Row(d, p, 1, 1, 1, 1) : d \in {<<2026, 2, 3>>, <<2026, 2, 4>>},
                                        p \in SomePhones}
    IN  base \cup {BlankRefusals(r) :
                     r \in {b \in base : b.Sms_Phone_Number = Phone(15122, 546962)}}

\* inputs that vary the volume against the delivered, click and revenue
\* counts (c = <<delivered, clicks, revenue>>), on two dates; the second
\* date has no record of volume 2
RateRows ==
    {Row(x[1], Phone(15122, 546962), x[2], c[1], c[2], c[3]) :
        x \in ({<<2026, 2, 3>>, <<2026, 2, 4>>} \X {0, 1, 2})
                \ {<<(<<2026, 2, 4>>), 2>>},
        c \in {<<1, 0, 1>>, <<0, 1, 0>>}}

\* inputs that vary volume and revenue (c = <<sent, revenue>>) over one date
\* before the cutoff and two dates from it on
DecompRows ==
    {Row(d, Phone(15122, 546962), c[1], c[1], c[2], c[2]) :
        d \in {<<2026, 2, 3>>, <<2026, 2, 4>>, <<2026, 2, 5>>},
        c \in {<<1, 0>>, <<2, 1>>, <<0, 1>>}}

\* inputs that vary the phone group (c = <<identifier, revenue>>), and the
\* revenue of the retired number, over the same dates
PhoneRows ==
    {Row(d, c[1], 1, 1, 1, c[2]) :
        d \in {<<2026, 2, 3>>, <<2026, 2, 4>>, <<2026, 2, 5>>},
        c \in {<<Phone(15122, 546961), 1>>, <<Phone(15122, 546961), 2>>,
               <<Phone(15122, 546962), 1>>}}

\* the two-day scenario's figures (revenue 100 or 200, volume 100) and a
\* second volume, on the day before the cutoff and on the cutoff day
ScenarioRows ==
    {Row(d, Phone(15122, 546962), n, n, 1, v) :
        d \in {<<2026, 2, 3>>, <<2026, 2, 4>>},
        n \in {50, 100},
        v \in {100, 200}}

\* inputs that vary the three categorical columns (c = <<segment, phone>>)
\* on one date, and the carrier on a second date
DummyRows ==
    {[Row(<<2026, 2, 3>>, c[2], 2, 2, 1, 3)
        EXCEPT !.Carrier_Group = g, !.Segment = c[1]] :
        g \in {"AT&T", "T-Mobile", "Verizon"},
        c \in {<<"Clicker", Phone(15122, 546961)>>,
               <<"New Data", Phone(15122, 546962)>>}}
    \cup
    {[Row(<<2026, 2, 4>>, Phone(15122, 546961), 2, 2, 1, 3)
        EXCEPT !.Carrier_Group = g] : g \in {"AT&T", "Verizon"}}

\* inputs that make each section that can fail do so: a date that is not a
\* calendar date, a file of excluded rows only, a blank Refusals cell, and
\* two later days, one of another volume, with which three days of one
\* period give Model 2 as many independent columns as rows
StageRows ==
    LET base == {Row(d, p, 1, 1, 1, 1) :
                    d \in {<<2026, 2, 3>>, <<2026, 2, 4>>, <<2026, 2, 30>>},
                    p \in {EXCLUDED_PHONE, Phone(15122, 546962)}}
    IN  base \cup {BlankRefusals(r) :
                     r \in {b \in base : /\ ValidDate(b.Date)
                                          /\ b.Sms_Phone_Number # EXCLUDED_PHONE}}
             \cup {Row(<<2026, 2, 5>>, Phone(15122, 546962), 2, 2, 1, 1),
                   Row(<<2026, 2, 6>>, Phone(15122, 546962), 1, 1, 1, 1)}

\* inputs whose seven count columns all differ (c = <<sent, delivered,
\* clicks, unique clicks, bounces, refusals, revenue>>), on three dates
\* that span a month end
ShapeRows ==
    {[Row(d, Phone(15122, 546962), c[1], c[2], c[3], c[7])
        EXCEPT !.Unique_Clicks = c[4], !.Bounces = c[5], !.Refusals = F(c[6])] :
        d \in {<<2026, 1, 31>>, <<2026, 2, 3>>, <<2026, 2, 5>>},
        c \in {<<9, 8, 5, 4, 1, 0, 7>>, <<20, 17, 6, 3, 2, 1, 11>>,
               <<13, 12, 0, 0, 1, 0, 0>>}}

InitWith(T) ==
    /\ raw \in T
    /\ pc = "etl"
    /\ failed = "none"
    /\ df = <<>>
    /\ phone_map = <<>>
    /\ daily = <<>>
    /\ desc_table = <<>>
    /\ pg = <<>>
    /\ breakdowns = <<>>
    /\ m1 = <<>>
    /\ m2 = <<>>
    /\ decomp = <<>>
    /\ summary = <<>>
    /\ files = {}

Next ==
    \/ Etl
    \/ DailyAggregate
    \/ DescriptiveStats
    \/ Figures
    \/ Model1
    \/ Model2
    \/ Decomposition
    \/ SummaryExport
    \/ CoefExport

Init == InitWith(WithEarlierDays(Tables(EtlRows)))

Spec == Init /\ [][Next]_vars

InitRates == InitWith(WithEarlierDays(Tables(RateRows)))

SpecRates == InitRates /\ [][Next]_vars

InitDecomp == InitWith(WithEarlierDays(Tables(DecompRows)))

SpecDecomp == InitDecomp /\ [][Next]_vars

InitPhones == InitWith(WithEarlierDays(Tables(PhoneRows)))

SpecPhones == InitPhones /\ [][Next]_vars

InitScenario == InitWith(WithEarlierDays(Tables(ScenarioRows)))

SpecScenario == InitScenario /\ [][Next]_vars

InitDummies == InitWith(WithEarlierDays(Tables(DummyRows)))

SpecDummies == InitDummies /\ [][Next]_vars

InitStages == InitWith(WithEarlierDays(Tables(StageRows)))

SpecStages == InitStages /\ [][Next]_vars

InitShape == InitWith(WithEarlierDays(Tables(ShapeRows)))

SpecShape == InitShape /\ [][Next]_vars

-----------------------------------------------------------------------------
(* Vocabulary of the properties *)

\* equality of two floats as == compares them: NaN equals nothing
FEq(x, y) == ~IsNaN(x) /\ ~IsNaN(y) /\ x = y

\* sum of the values of a function with a finite domain
RECURSIVE SumFn(_)
SumFn(f) ==
    IF DOMAIN f = {} THEN 0
    ELSE LET x == CHOOSE x \in DOMAIN f : TRUE
         IN  f[x] + SumFn([y \in DOMAIN f \ {x} |-> f[y]])

\* a record-valued variable has been assigned
Computed(v) == DOMAIN v # {}

\* the ETL section has run to its end
EtlDone == pc # "etl" /\ failed # "etl"

\* the daily aggregate has been built
DailyDone == EtlDone /\ pc # "daily"

\* the run has ended
Ended == pc \in {"done", "aborted"}

\* the columns of the input file are the same in the two rows
SameInput(e, r) ==
    /\ e.Date = ToDatetime(r.Date)
    /\ e.Sms_Phone_Number = r.Sms_Phone_Number
    /\ e.Carrier_Group = r.Carrier_Group
    /\ e.Segment = r.Segment
    /\ e.Sent = r.Sent
    /\ e.Delivered = r.Delivered
    /\ e.Clicks = r.Clicks
    /\ e.Unique_Clicks = r.Unique_Clicks
    /\ e.Bounces = r.Bounces
    /\ e.Refusals = r.Refusals
    /\ e.Revenue = r.Revenue

\* the positions of raw that hold another identifier than the excluded one
KeptPositions == {j \in 1..Len(raw) : raw[j].Sms_Phone_Number # EXCLUDED_PHONE}

-----------------------------------------------------------------------------
(* C1 *)

\* C1: the filtered table has no more rows than the input, every row of it is
\* an unchanged input row (the i-th row of df is the i-th input row that
\* carries another identifier), and the excluded identifier occurs neither in
\* the filtered table, nor in the phone-label map, nor in what the daily
\* aggregate sums: each day's revenue and volume are those of the kept rows.
FilterExcludes ==
    EtlDone =>
        /\ Len(df) <= Len(raw)
        /\ \A i \in 1..Len(df) :
              \E j \in KeptPositions :
                  /\ Cardinality({k \in KeptPositions : k < j}) = i - 1
                  /\ SameInput(df[i], raw[j])
        /\ \A i \in 1..Len(df) : df[i].Sms_Phone_Number # EXCLUDED_PHONE
        /\ EXCLUDED_PHONE \notin DOMAIN phone_map
        /\ DailyDone =>
              \A i \in 1..Len(daily) :
                  LET on == {j \in KeptPositions : ToDatetime(raw[j].Date) = daily[i].Date}
                  IN  /\ daily[i].Revenue = SumFn([j \in on |-> raw[j].Revenue])
                      /\ daily[i].Sent = SumFn([j \in on |-> raw[j].Sent])

\* a run whose input holds rows of the excluded identifier and other rows
FilterExcludesWitness ==
    /\ pc = "done"
    /\ Len(df) >= 1
    /\ Len(df) < Len(raw)
    /\ \E j \in 1..Len(raw) : raw[j].Sms_Phone_Number = EXCLUDED_PHONE

-----------------------------------------------------------------------------
(* C4 *)

PhoneIds == {df[i].Sms_Phone_Number : i \in 1..Len(df)}

\* C4: the phone-label map is a bijection from the distinct identifiers of
\* the filtered table onto Phone_1 .. Phone_N, the identifier with i - 1
\* numerically smaller identifiers gets Phone_i (which fixes the map, so every
\* run on the same input gives the same one), and every row carries the label
\* of its identifier.
PhoneLabelsRanked ==
    EtlDone =>
        /\ DOMAIN phone_map = PhoneIds
        /\ {phone_map[p] : p \in PhoneIds}
              = {<<"Phone_", i>> : i \in 1..Cardinality(PhoneIds)}
        /\ \A p, q \in PhoneIds : phone_map[p] = phone_map[q] => p = q
        /\ \A p \in PhoneIds :
              phone_map[p] = <<"Phone_", 1 + Cardinality({q \in PhoneIds : PhoneLess(q, p)})>>
        /\ \A i \in 1..Len(df) : df[i].Phone_Label = phone_map[df[i].Sms_Phone_Number]

\* three distinct identifiers, of which one is smaller than another although
\* its last six digits are larger
PhoneLabelsRankedWitness ==
    /\ EtlDone
    /\ Cardinality(PhoneIds) = 3
    /\ \E p, q \in PhoneIds : PhoneLess(p, q) /\ p[2] > q[2]

-----------------------------------------------------------------------------
(* C9 *)

\* C9: a failed fit of Model 1 or Model 2 ends that model only: when the run
\* has ended after such a failure, the decomposition has been computed and
\* the summary table has been exported.
FitFailureIsolated ==
    (Ended /\ failed \in {"model1", "model2"}) =>
        /\ Computed(decomp)
        /\ "summary_table.csv" \in files

-----------------------------------------------------------------------------
(* C5, C6, C10: checked under SpecRates *)

\* the float x is the quotient num / den of two counts, den > 0
IsQuotient(x, num, den) == IsFinite(x) /\ x[1] * den = num * x[2]

InUnit(x) == FLe(F(0), x) /\ FLe(x, F(1))

\* C5: on every row of the daily aggregate, delivery rate and click-through
\* rate lie in [0, 1] when the day's volume is positive, and delivery rate,
\* click-through rate and revenue per sent are NaN when it is zero.
DailyRatesBounded ==
    DailyDone =>
        \A i \in 1..Len(daily) :
            /\ daily[i].Sent > 0 =>
                  InUnit(daily[i].Delivery_Rate) /\ InUnit(daily[i].CTR)
            /\ daily[i].Sent = 0 =>
                  /\ IsNaN(daily[i].Delivery_Rate)
                  /\ IsNaN(daily[i].CTR)
                  /\ IsNaN(daily[i].Rev_per_Sent)

\* C6: on every row of the filtered table the three ratios are NaN when
\* Sent = 0 and delivered/sent, clicks/sent, revenue/sent when Sent > 0, and
\* the daily aggregation of such a table ends without an exception, with one
\* row for each date of the table.
RowRatiosGuarded ==
    /\ EtlDone =>
          \A i \in 1..Len(df) :
              /\ df[i].Sent = 0 =>
                    /\ IsNaN(df[i].Delivery_Rate)
                    /\ IsNaN(df[i].CTR)
                    /\ IsNaN(df[i].Rev_per_Sent)
              /\ df[i].Sent > 0 =>
                    /\ IsQuotient(df[i].Delivery_Rate, df[i].Delivered, df[i].Sent)
                    /\ IsQuotient(df[i].CTR, df[i].Clicks, df[i].Sent)
                    /\ IsQuotient(df[i].Rev_per_Sent, df[i].Revenue, df[i].Sent)
    /\ pc = "desc" =>
          /\ failed = "none"
          /\ {daily[i].Date : i \in 1..Len(daily)} = DatesOf(df)

\* the aggregation has run on a table with a Sent = 0 row and a row whose
\* ratios are positive
RowRatiosGuardedWitness ==
    /\ pc = "desc"
    /\ \E i \in 1..Len(df) : df[i].Sent = 0 /\ df[i].Revenue > 0
    /\ \E i \in 1..Len(df) : df[i].Sent > 0 /\ df[i].Delivery_Rate[1] > 0

\* the positions of df dated d
PositionsOn(d) == {j \in 1..Len(df) : df[j].Date = d}

\* C10: for every date, the three rates of the daily aggregate are the sum of
\* the numerator over the date's records divided by the sum of Sent over
\* them (not finite when that sum is zero), whatever the per-record ratios.
DailyRatesFromSums ==
    DailyDone =>
        \A i \in 1..Len(daily) :
            LET on        == PositionsOn(daily[i].Date)
                sent      == SumFn([j \in on |-> df[j].Sent])
                delivered == SumFn([j \in on |-> df[j].Delivered])
                clicks    == SumFn([j \in on |-> df[j].Clicks])
                revenue   == SumFn([j \in on |-> df[j].Revenue])
            IN  IF sent > 0
                THEN /\ IsQuotient(daily[i].Delivery_Rate, delivered, sent)
                     /\ IsQuotient(daily[i].CTR, clicks, sent)
                     /\ IsQuotient(daily[i].Rev_per_Sent, revenue, sent)
                ELSE /\ ~IsFinite(daily[i].Delivery_Rate)
                     /\ ~IsFinite(daily[i].CTR)
                     /\ ~IsFinite(daily[i].Rev_per_Sent)

\* a date with a Sent = 0 record and another record, on which the delivery
\* rate of the sums differs from the mean of the per-record delivery rates
DailyRatesFromSumsWitness ==
    /\ DailyDone
    /\ \E i \in 1..Len(daily) :
          LET g == RowsOn(df, daily[i].Date)
          IN  /\ Len(g) >= 2
              /\ \E j \in 1..Len(g) : g[j].Sent = 0
              /\ IsFinite(daily[i].Delivery_Rate)
              /\ daily[i].Delivery_Rate
                    # MeanSkipNa([j \in 1..Len(g) |-> g[j].Delivery_Rate])

-----------------------------------------------------------------------------
(* C2, C7, C8: checked under SpecDecomp; C3: checked under SpecPhones *)

PrePositions == {j \in 1..Len(df) : df[j].Date < cutoff}
PostPositions == {j \in 1..Len(df) : df[j].Date >= cutoff}

DaysIn(P) == Cardinality({df[j].Date : j \in P})
RevenueIn(P) == SumFn([j \in P |-> df[j].Revenue])
SentIn(P) == SumFn([j \in P |-> df[j].Sent])

\* period total / number of distinct dates of the period
PerDay(total, P) == FDiv(F(total), F(DaysIn(P)))

\* the decomposition holds the figures the formulas of the volume and
\* efficiency axis give, and the two effects add up to the total decline
AdditiveOnVolumeAxis ==
    LET A == PerDay(RevenueIn(PrePositions), PrePositions)
        B == PerDay(RevenueIn(PostPositions), PostPositions)
        S == PerDay(SentIn(PrePositions), PrePositions)
        T == PerDay(SentIn(PostPositions), PostPositions)
    IN  /\ decomp.total_decline = FSub(B, A)
        /\ decomp.volume_effect = FMul(FSub(T, S), FDiv(A, S))
        /\ decomp.efficiency_effect = FMul(FSub(FDiv(B, T), FDiv(A, S)), T)
        /\ FEq(FAdd(decomp.volume_effect, decomp.efficiency_effect),
               decomp.total_decline)

\* C2 as stated: whenever the send volume before the cutoff is not zero, also
\* when the send volume from the cutoff on is zero, volume effect plus
\* efficiency effect equals the total decline.
VolumeEfficiencyAdditiveAnyPost ==
    (Computed(decomp) /\ SentIn(PrePositions) # 0) => AdditiveOnVolumeAxis

\* C2, amended: whenever the send volume before the cutoff and the send
\* volume from the cutoff on are both not zero, volume effect plus efficiency
\* effect equals the total decline.
VolumeEfficiencyAdditive ==
    (Computed(decomp) /\ SentIn(PrePositions) # 0 /\ SentIn(PostPositions) # 0)
        => AdditiveOnVolumeAxis

\* two dates from the cutoff on, differing volumes, and two effects that are
\* both not zero
VolumeEfficiencyAdditiveWitness ==
    /\ Computed(decomp)
    /\ SentIn(PrePositions) # 0
    /\ SentIn(PostPositions) # 0
    /\ decomp.n_post_days = 2
    /\ decomp.pre_avg_sent # decomp.post_avg_sent
    /\ ~IsZero(decomp.volume_effect)
    /\ ~IsZero(decomp.efficiency_effect)

RetiredIn(P) == {j \in P : df[j].Sms_Phone_Number \in retired_phones}
ActiveIn(P) == {j \in P : df[j].Sms_Phone_Number \notin retired_phones}

\* each group effect is the group's revenue per day of the whole period, from
\* the cutoff on less before it, and the two effects add up to the total
AdditiveOnPhoneAxis ==
    /\ decomp.retired_effect
         = FSub(PerDay(RevenueIn(RetiredIn(PostPositions)), PostPositions),
                PerDay(RevenueIn(RetiredIn(PrePositions)), PrePositions))
    /\ decomp.active_effect
         = FSub(PerDay(RevenueIn(ActiveIn(PostPositions)), PostPositions),
                PerDay(RevenueIn(ActiveIn(PrePositions)), PrePositions))
    /\ FEq(FAdd(decomp.retired_effect, decomp.active_effect), decomp.total_decline)

\* C3 as stated: for any filtered table, retired effect plus active effect
\* equals the total decline.
PhoneGroupsAdditiveAnyTable ==
    Computed(decomp) => AdditiveOnPhoneAxis

\* C3, amended: for any filtered table with at least one record before the
\* cutoff and at least one from it on, retired effect plus active effect
\* equals the total decline, each group effect dividing by the number of
\* distinct dates of the whole period.
PhoneGroupsAdditive ==
    (Computed(decomp) /\ PrePositions # {} /\ PostPositions # {})
        => AdditiveOnPhoneAxis

\* two dates from the cutoff on, the retired group on one of them only, and
\* two effects that are both not zero
PhoneGroupsAdditiveWitness ==
    /\ Computed(decomp)
    /\ PrePositions # {}
    /\ decomp.n_post_days = 2
    /\ DaysIn(RetiredIn(PostPositions)) = 1
    /\ ~IsZero(decomp.retired_effect)
    /\ ~IsZero(decomp.active_effect)

\* the texts Python prints for a float that is not finite
NotFiniteTexts == {"nan", "inf", "-inf"}

\* C7: in the comparison table and in the summary table, a metric whose mean
\* before the cutoff is exactly zero has a percent change that is neither an
\* infinity nor NaN, and a metric whose mean before the cutoff is not zero
\* has the percent change (post - pre) / pre * 100.
PctChangeSignalled ==
    /\ Computed(desc_table) =>
          \A m \in DescMetrics :
              /\ IsZero(desc_table[m].pre) => IsFinite(desc_table[m].pct)
              /\ (IsFinite(desc_table[m].pre) /\ ~IsZero(desc_table[m].pre)
                    /\ IsFinite(desc_table[m].post)) =>
                    desc_table[m].pct
                      = Norm((desc_table[m].post[1] * desc_table[m].pre[2]
                               - desc_table[m].pre[1] * desc_table[m].post[2]) * 100,
                             desc_table[m].pre[1] * desc_table[m].post[2])
    /\ (Computed(summary) /\ Computed(desc_table)) =>
          \A m \in {"Revenue", "Sent", "Delivery_Rate", "CTR", "Rev_per_Sent"} :
              IsZero(desc_table[m].pre) => summary[m].change[1] \notin NotFiniteTexts

\* C8: when the total decline is exactly zero no printed share is an infinity
\* or NaN; when it is not zero (and both periods have send volume) the volume
\* and efficiency shares sum to 100, as do the retired and active shares.
SharesDefined ==
    Computed(decomp) =>
        /\ IsZero(decomp.total_decline) =>
              /\ decomp.volume_pct[1] \notin NotFiniteTexts
              /\ decomp.efficiency_pct[1] \notin NotFiniteTexts
              /\ decomp.retired_pct[1] \notin NotFiniteTexts
              /\ decomp.active_pct[1] \notin NotFiniteTexts
        /\ (IsFinite(decomp.total_decline) /\ ~IsZero(decomp.total_decline)
              /\ SentIn(PrePositions) # 0 /\ SentIn(PostPositions) # 0) =>
              /\ FEq(FAdd(FMul(FDiv(decomp.volume_effect, decomp.total_decline), F(100)),
                          FMul(FDiv(decomp.efficiency_effect, decomp.total_decline), F(100))),
                     F(100))
              /\ FEq(FAdd(FMul(FDiv(decomp.retired_effect, decomp.total_decline), F(100)),
                          FMul(FDiv(decomp.active_effect, decomp.total_decline), F(100))),
                     F(100))

-----------------------------------------------------------------------------
(* C11: checked under SpecStages, whose second date is the cutoff itself *)

\* the number of occurrences of the row x in the table
Count(tbl, x) == Cardinality({i \in 1..Len(tbl) : tbl[i] = x})

\* the pre and post bucket of the table hold rows dated before the cutoff and
\* from the cutoff on, every row of the table is in one bucket as often as in
\* the table and not in the other, and a row dated at the cutoff is in post
SplitsInTwo(tbl) ==
    LET pre  == PreOf(tbl)
        post == PostOf(tbl)
    IN  /\ \A i \in 1..Len(pre) : pre[i].Date < cutoff
        /\ \A i \in 1..Len(post) : post[i].Date >= cutoff
        /\ Len(pre) + Len(post) = Len(tbl)
        /\ \A i \in 1..Len(tbl) :
              /\ Count(pre, tbl[i]) + Count(post, tbl[i]) = Count(tbl, tbl[i])
              /\ Count(pre, tbl[i]) = 0 \/ Count(post, tbl[i]) = 0
              /\ tbl[i].Date = cutoff => Count(post, tbl[i]) = Count(tbl, tbl[i])

\* the Post_Decline column of the design matrix X built from the table is 1
\* on the rows of the post bucket and 0 on the others
IndicatesPost(X, tbl) ==
    /\ Len(X.rows) = Len(tbl)
    /\ \E k \in 1..Len(X.columns) : X.columns[k] = <<"Post_Decline">>
    /\ \A i \in 1..Len(tbl) :
          X.rows[i][<<"Post_Decline">>]
              = IF Count(PostOf(tbl), tbl[i]) > 0 THEN F(1) ELSE F(0)

\* C11: the pre bucket (date < cutoff) and the post bucket (date >= cutoff)
\* of the daily aggregate and of the row-level table are disjoint and hold
\* every row exactly once, a row dated at the cutoff is in the post bucket,
\* the day counts of the decomposition are those of the two buckets, and
\* Post_Decline in the design matrices of both models is 1 exactly on the
\* rows of the post bucket.
PeriodSplit ==
    DailyDone =>
        /\ SplitsInTwo(daily)
        /\ SplitsInTwo(df)
        /\ IndicatesPost(X1Of(daily), daily)
        /\ IndicatesPost(X2Of(df), df)
        /\ Computed(m1) => m1.params = X1Of(daily).columns
        /\ Computed(m2) => m2.params = X2Of(df).columns
        /\ Computed(decomp) =>
              decomp.n_pre_days + decomp.n_post_days = Len(daily)

\* both models are fitted on a table with a day before the cutoff and the
\* cutoff day itself
PeriodSplitWitness ==
    /\ Computed(m1) /\ Computed(m2) /\ Computed(decomp)
    /\ \E i \in 1..Len(df) : df[i].Date = cutoff
    /\ \E i \in 1..Len(df) : df[i].Date = cutoff - 1

-----------------------------------------------------------------------------
(* C12: checked under SpecScenario *)

\* the daily aggregate is the two-day scenario: revenue 100 on volume 100 on
\* a day before the cutoff, revenue 200 on volume 100 on a day from it on
TwoDayScenario ==
    /\ Len(daily) = 2
    /\ daily[1].Date < cutoff /\ daily[1].Revenue = 100 /\ daily[1].Sent = 100
    /\ daily[2].Date >= cutoff /\ daily[2].Revenue = 200 /\ daily[2].Sent = 100

\* C12: a run on the two-day scenario ends with a decomposition, which gives
\* pre RPS 1, post RPS 2, total decline +100, volume effect 0 and efficiency
\* effect 100.
ScenarioFigures ==
    (Ended /\ TwoDayScenario) =>
        /\ Computed(decomp)
        /\ FEq(decomp.pre_rps, F(1))
        /\ FEq(decomp.post_rps, F(2))
        /\ FEq(decomp.total_decline, F(100))
        /\ FEq(decomp.volume_effect, F(0))
        /\ FEq(decomp.efficiency_effect, F(100))

-----------------------------------------------------------------------------
(* C13: checked under SpecDummies *)

\* the three categoricals of Model 2: <<column prefix, grouping column>>
Categoricals ==
    {<<"Carrier", "Carrier_Group">>, <<"Seg", "Segment">>, <<"PG", "Phone_Group">>}

\* the indicator columns of the design matrix X that carry the prefix
IndicatorsOf(X, prefix) ==
    {X.columns[k] : k \in {k \in 1..Len(X.columns) : X.columns[k][1] = prefix}}

\* the levels of the grouping column that the table holds
ObservedLevels(tbl, dim) == {DimOf(tbl[i], dim) : i \in 1..Len(tbl)}

\* the categorical cat is encoded in X with one level dropped
EncodedDropFirst(X, tbl, cat) ==
    LET cols   == IndicatorsOf(X, cat[1])
        levels == ObservedLevels(tbl, cat[2])
    IN  /\ Cardinality(cols) = Cardinality(levels) - 1
        /\ {c[2] : c \in cols} \subseteq levels
        /\ \A i \in 1..Len(tbl) :
              /\ \A c \in cols :
                    X.rows[i][c] = IF DimOf(tbl[i], cat[2]) = c[2] THEN F(1) ELSE F(0)
              /\ Cardinality({c \in cols : X.rows[i][c] = F(1)}) <= 1
        /\ \E ref \in levels :
              /\ \A c \in cols : c[2] # ref
              /\ \A i \in 1..Len(tbl) :
                    DimOf(tbl[i], cat[2]) = ref =>
                        \A c \in cols : X.rows[i][c] = F(0)
        /\ \E i \in 1..Len(tbl) : \A c \in cols : X.rows[i][c] = F(0)

\* C13: in the design matrix of Model 2 a categorical with k observed levels
\* has k - 1 indicator columns, a row has at most one of them set to 1, the
\* rows of the dropped level have none, so the indicators of a categorical
\* do not add up to the constant column; and Delivered is not a column.
OneHotDropFirst ==
    (pc \in {"decomp", "summary", "coef", "done"} \/ failed = "model2") =>
        /\ Len(df) > 0 => \A cat \in Categoricals : EncodedDropFirst(X2Of(df), df, cat)
        /\ \A k \in 1..Len(X2Of(df).columns) : X2Of(df).columns[k] # <<"Delivered">>
        /\ Computed(m2) => m2.params = X2Of(df).columns

\* Model 2 is fitted on rows of three carriers, two segments and both phone
\* groups: two carrier indicators, one segment and one phone-group indicator
OneHotDropFirstWitness ==
    /\ Computed(m2)
    /\ Cardinality(IndicatorsOf([columns |-> m2.params], "Carrier")) = 2
    /\ Cardinality(ObservedLevels(df, "Carrier_Group")) = 3
    /\ Cardinality(IndicatorsOf([columns |-> m2.params], "Seg")) = 1
    /\ Cardinality(IndicatorsOf([columns |-> m2.params], "PG")) = 1

-----------------------------------------------------------------------------
(* C14: checked under SpecRates *)

\* C14: on every row of the daily aggregate, Rev_per_Click is the day's
\* revenue when the day's summed clicks are 0 and revenue / clicks when they
\* are positive; it is never NaN nor infinite, and the aggregation ends
\* without an exception.
RevPerClickGuarded ==
    /\ DailyDone =>
          \A i \in 1..Len(daily) :
              LET on      == PositionsOn(daily[i].Date)
                  clicks  == SumFn([j \in on |-> df[j].Clicks])
                  revenue == SumFn([j \in on |-> df[j].Revenue])
              IN  /\ IsFinite(daily[i].Rev_per_Click)
                  /\ clicks = 0 => FEq(daily[i].Rev_per_Click, F(revenue))
                  /\ clicks > 0 => IsQuotient(daily[i].Rev_per_Click, revenue, clicks)
    /\ failed # "daily"

\* a day without clicks that has revenue, and a day with two clicks
RevPerClickGuardedWitness ==
    /\ DailyDone
    /\ \E i \in 1..Len(daily) : daily[i].Clicks = 0 /\ daily[i].Revenue > 0
    /\ \E i \in 1..Len(daily) : daily[i].Clicks = 2

-----------------------------------------------------------------------------
(* C15: checked under SpecDummies *)

\* float sum of the values of a function with a finite domain
RECURSIVE FSumFn(_)
FSumFn(f) ==
    IF DOMAIN f = {} THEN F(0)
    ELSE LET x == CHOOSE x \in DOMAIN f : TRUE
         IN  FAdd(f[x], FSumFn([y \in DOMAIN f \ {x} |-> f[y]]))

\* the positions of df dated d whose grouping column holds the level l
PositionsOf(d, dim, l) == {j \in PositionsOn(d) : DimOf(df[j], dim) = l}

\* t is the date x level revenue table of df for the grouping column dim
IsCrosstab(t, dim) ==
    /\ Len(t.index) = Cardinality(DatesOf(df))
    /\ {t.index[i] : i \in 1..Len(t.index)} = DatesOf(df)
    /\ t.columns = ObservedLevels(df, dim)
    /\ DOMAIN t.cell = DatesOf(df) \X ObservedLevels(df, dim)
    /\ \A d \in DatesOf(df) :
          /\ \A l \in t.columns :
                /\ FEq(t.cell[<<d, l>>],
                       F(SumFn([j \in PositionsOf(d, dim, l) |-> df[j].Revenue])))
                /\ PositionsOf(d, dim, l) = {} => FEq(t.cell[<<d, l>>], F(0))
          /\ FEq(FSumFn([l \in t.columns |-> t.cell[<<d, l>>]]),
                 F(SumFn([j \in PositionsOn(d) |-> df[j].Revenue])))
          /\ \E i \in 1..Len(daily) :
                /\ daily[i].Date = d
                /\ FEq(FSumFn([l \in t.columns |-> t.cell[<<d, l>>]]),
                       F(daily[i].Revenue))

\* C15: each date x dimension table (phone group, carrier, segment, phone
\* label) has one row per distinct date and one column per distinct level,
\* each cell is the summed revenue of its (date, level) pair, 0 for a pair
\* without a record, and each row adds up to the day's total revenue.
CrosstabComplete ==
    /\ Computed(pg) => IsCrosstab(pg, "Phone_Group")
    /\ Computed(breakdowns) =>
          /\ IsCrosstab(breakdowns.pg_daily, "Phone_Group")
          /\ IsCrosstab(breakdowns.carrier_daily, "Carrier_Group")
          /\ IsCrosstab(breakdowns.seg_daily, "Segment")
          /\ IsCrosstab(breakdowns.phone_daily, "Phone_Label")

\* two dates and two carriers, of which one has no record on one of the
\* dates and two records on the other; both phone groups occur
CrosstabCompleteWitness ==
    /\ Computed(pg) /\ Computed(breakdowns)
    /\ Len(breakdowns.carrier_daily.index) = 2
    /\ Cardinality(breakdowns.carrier_daily.columns) = 2
    /\ Cardinality(pg.columns) = 2
    /\ \E d \in DatesOf(df) : \E l \in breakdowns.carrier_daily.columns :
          PositionsOf(d, "Carrier_Group", l) = {}
    /\ \E d \in DatesOf(df) : \E l \in breakdowns.carrier_daily.columns :
          Cardinality(PositionsOf(d, "Carrier_Group", l)) = 2

-----------------------------------------------------------------------------
(* C16: checked under SpecStages *)

\* the sections of the script in the order of the file
StageOrder ==
    <<"etl", "daily", "desc", "figures", "model1", "model2", "decomp",
      "summary", "coef", "done">>

StageIndex(s) == CHOOSE k \in 1..Len(StageOrder) : StageOrder[k] = s

\* the files a section writes
ExportsOf(s) ==
    CASE s = "figures" -> {"fig1_revenue_overview.png", "fig2_breakdowns.png"}
      [] s = "summary" -> {"summary_table.csv"}
      [] s = "coef"    -> {"regression_coefficients.csv"}
      [] OTHER         -> {}

\* the files of the sections before position k of the order
ExportsBefore(k) == UNION {ExportsOf(StageOrder[j]) : j \in 1..(k - 1)}

\* a step runs the section that is next in the order, once; it either ends
\* the section, writes that section's files and moves to the following one,
\* or fails, writes nothing and ends the run (what the section has bound
\* before it fails stays bound)
StageStep ==
    /\ pc \notin {"done", "aborted"}
    /\ failed = "none"
    /\ \/ /\ failed' = "none"
          /\ pc' = StageOrder[StageIndex(pc) + 1]
          /\ files' = files \cup ExportsOf(pc)
       \/ /\ failed' = pc
          /\ pc' = "aborted"
          /\ files' = files

\* the section that assigns each result
StageOf ==
    [daily |-> "daily", desc_table |-> "desc", pg |-> "desc",
     breakdowns |-> "figures", m1 |-> "model1", m2 |-> "model2",
     decomp |-> "decomp", summary |-> "summary"]

ResultOf(v) ==
    CASE v = "daily"      -> daily
      [] v = "desc_table" -> desc_table
      [] v = "pg"         -> pg
      [] v = "breakdowns" -> breakdowns
      [] v = "m1"         -> m1
      [] v = "m2"         -> m2
      [] v = "decomp"     -> decomp
      [] v = "summary"    -> summary

\* what a run has written is what the sections it has ended write; a result
\* is assigned only by a section that has ended, or by the section that has
\* failed; the fits and the tables of the sections that have ended are
\* assigned; after a failure the run is over
StagesRun ==
    LET k == IF pc = "aborted" THEN StageIndex(failed) ELSE StageIndex(pc)
    IN  /\ (failed # "none") <=> (pc = "aborted")
        /\ files = ExportsBefore(k)
        /\ \A v \in DOMAIN StageOf :
              ResultOf(v) # <<>> =>
                  \/ k > StageIndex(StageOf[v])
                  \/ pc = "aborted" /\ k = StageIndex(StageOf[v])
        /\ \A v \in {"desc_table", "m1", "m2", "decomp", "summary"} :
              k > StageIndex(StageOf[v]) => ResultOf(v) # <<>>

\* C16: the sections run once each in the order filter and enrichment, daily
\* aggregation, descriptive statistics, figures, Model 1, Model 2,
\* decomposition, summary export, coefficient export; a failure in a section
\* ends the run: no later section runs, none is run again, and no file of a
\* later section is written.
StagesInOrder == [][StageStep]_vars /\ []StagesRun

\* a run that Model 2 has ended after its fit, in the summary of the fit:
\* Model 1 has passed, the figures are written, the two tables of the later
\* sections are not
StagesInOrderWitness ==
    /\ pc = "aborted"
    /\ failed = "model2"
    /\ Computed(m1)
    /\ Computed(m2)
    /\ ~Computed(decomp)
    /\ files = {"fig1_revenue_overview.png", "fig2_breakdowns.png"}

-----------------------------------------------------------------------------
(* C17: checked under SpecShape *)

\* C17: the daily aggregate has one row per distinct date of the filtered
\* table, in strictly ascending date order; each of its seven summed columns
\* is the sum over the records of the date, so the column totals over the
\* days are the totals over the records; and the DayNum of a day is the
\* DayNum of each record of that date, 0 on the earliest date.
DailyShape ==
    DailyDone =>
        /\ Len(daily) = Cardinality(DatesOf(df))
        /\ {daily[i].Date : i \in 1..Len(daily)} = DatesOf(df)
        /\ \A i \in 1..(Len(daily) - 1) : daily[i].Date < daily[i + 1].Date
        /\ \A i \in 1..Len(daily) :
              LET on == PositionsOn(daily[i].Date)
              IN  /\ daily[i].Revenue = SumFn([j \in on |-> df[j].Revenue])
                  /\ daily[i].Sent = SumFn([j \in on |-> df[j].Sent])
                  /\ daily[i].Delivered = SumFn([j \in on |-> df[j].Delivered])
                  /\ daily[i].Clicks = SumFn([j \in on |-> df[j].Clicks])
                  /\ daily[i].Unique_Clicks = SumFn([j \in on |-> df[j].Unique_Clicks])
                  /\ daily[i].Bounces = SumFn([j \in on |-> df[j].Bounces])
                  /\ FEq(daily[i].Refusals, FSumFn([j \in on |-> df[j].Refusals]))
                  /\ \A j \in on : df[j].DayNum = daily[i].DayNum
        /\ Len(daily) > 0 => daily[1].DayNum = 0
        /\ SumFn([i \in 1..Len(daily) |-> daily[i].Revenue])
              = SumFn([j \in 1..Len(df) |-> df[j].Revenue])
        /\ SumFn([i \in 1..Len(daily) |-> daily[i].Sent])
              = SumFn([j \in 1..Len(df) |-> df[j].Sent])
        /\ SumFn([i \in 1..Len(daily) |-> daily[i].Delivered])
              = SumFn([j \in 1..Len(df) |-> df[j].Delivered])
        /\ SumFn([i \in 1..Len(daily) |-> daily[i].Clicks])
              = SumFn([j \in 1..Len(df) |-> df[j].Clicks])
        /\ SumFn([i \in 1..Len(daily) |-> daily[i].Unique_Clicks])
              = SumFn([j \in 1..Len(df) |-> df[j].Unique_Clicks])
        /\ SumFn([i \in 1..Len(daily) |-> daily[i].Bounces])
              = SumFn([j \in 1..Len(df) |-> df[j].Bounces])
        /\ FEq(FSumFn([i \in 1..Len(daily) |-> daily[i].Refusals]),
               FSumFn([j \in 1..Len(df) |-> df[j].Refusals]))

\* two dates on either side of a month end, the later one first in the file
\* and the earlier one with two records of different counts
DailyShapeWitness ==
    /\ DailyDone
    /\ Len(daily) = 2
    /\ Len(df) = 3
    /\ df[1].Date > df[2].Date
    /\ df[2].Date = df[3].Date
    /\ df[2].Unique_Clicks # df[3].Unique_Clicks
    /\ daily[2].DayNum = 3

-----------------------------------------------------------------------------
(* C18: checked under SpecDecomp *)

\* C18: for a period that has records, the average daily revenue and the
\* average daily volume of the decomposition (sum over the period's records
\* / number of its distinct dates) are the period means of the Revenue and
\* Sent columns of the daily aggregate held by desc_table; with records in
\* both periods total_decline is the difference of the two Revenue means.
AveragesAgree ==
    Computed(decomp) =>
        /\ PrePositions # {} =>
              /\ FEq(decomp.pre_avg_rev, desc_table["Revenue"].pre)
              /\ FEq(decomp.pre_avg_sent, desc_table["Sent"].pre)
        /\ PostPositions # {} =>
              /\ FEq(decomp.post_avg_rev, desc_table["Revenue"].post)
              /\ FEq(decomp.post_avg_sent, desc_table["Sent"].post)
        /\ (PrePositions # {} /\ PostPositions # {}) =>
              FEq(decomp.total_decline,
                  FSub(desc_table["Revenue"].post, desc_table["Revenue"].pre))

\* records in both periods, two of them with different revenue on one date
\* before the cutoff, so that the period has more records than dates
AveragesAgreeWitness ==
    /\ Computed(decomp)
    /\ PostPositions # {}
    /\ decomp.n_pre_days < Cardinality(PrePositions)
    /\ \E i, j \in PrePositions :
          df[i].Date = df[j].Date /\ df[i].Revenue # df[j].Revenue
    /\ ~IsZero(decomp.total_decline)

====
